---- MODULE Spec2Model ----
(***************************************************************************)
(* A model of the multi-profile API configuration manager (ConfigManager)  *)
(* and of the validation rules it calls.                                   *)
(*                                                                         *)
(* A configuration object (ApiConfiguration, ProfileSpecificSettings) is a *)
(* function from the names of the fields it defines to their values; a     *)
(* field that is undefined is not in the DOMAIN, which is also what        *)
(* JSON.stringify keeps of it.  Values are strings.                        *)
(*                                                                         *)
(* A persisted document is a record                                        *)
(*   shape     "current" (profiles/globalSettings), "legacy" (apiConfigs)  *)
(*             or "empty" (no content stored under the key)                *)
(*   keys      the key order of profiles (of apiConfigs when legacy)       *)
(*   profiles  name -> settings                                            *)
(*   hasGlobal whether globalSettings is present                           *)
(*   current   currentApiConfigName ("" when missing)                      *)
(*   modes     modeApiConfigs, mode -> bound value (an undefined           *)
(*             modeApiConfigs and {} behave alike in every operation)      *)
(*                                                                         *)
(* store is the content of the backing secret store, defaultConfig the     *)
(* manager's defaultConfig object, nextId counts the ids generated.        *)
(***************************************************************************)
EXTENDS Integers, Sequences, FiniteSets, TLC

VARIABLES store, defaultConfig, nextId, lastOp, pending, applied

vars == <<store, defaultConfig, nextId, lastOp, pending, applied>>

(* ------------------------------ bounds -------------------------------- *)

\* at most MaxId ids are generated in a behaviour
MaxId == 3

\* the operations are followed while the document holds at most MaxProfiles
\* profiles
MaxProfiles == 2

\* at most MaxPending calls have read the document and not yet gone on
MaxPending == 2

(* ------------------------- program constants --------------------------- *)

MaxNameLength == 50

(* ------------------------------ fields --------------------------------- *)

\* the fields extractProfileSettings copies (besides id)
ProfileFields ==
    { "apiProvider", "apiModelId", "apiKey", "glamaModelId", "glamaModelInfo",
      "glamaApiKey", "openRouterApiKey", "awsAccessKey", "awsSecretKey",
      "awsSessionToken", "awsRegion", "awsUseCrossRegionInference",
      "vertexProjectId", "vertexRegion", "openAiBaseUrl", "openAiApiKey",
      "openAiModelId", "ollamaModelId", "ollamaBaseUrl", "lmStudioModelId",
      "lmStudioBaseUrl", "anthropicBaseUrl", "geminiApiKey",
      "openAiNativeApiKey", "deepSeekApiKey", "mistralApiKey",
      "azureApiVersion", "openAiStreamingEnabled", "openRouterModelId",
      "openRouterModelInfo", "openRouterUseMiddleOutTransform",
      "vsCodeLmModelSelector" }

\* the fields of GlobalSettings, which a caller may bundle into a configuration
GlobalFields ==
    { "currentApiConfigName", "alwaysAllowReadOnly", "alwaysAllowWrite",
      "alwaysAllowExecute", "alwaysAllowBrowser", "alwaysAllowMcp",
      "modeApiConfigs" }

Modes == { "code", "ask" }

\* the mode SetModeConfig is called with in Spec
BoundModes == { "code" }

\* JavaScript truthiness of a string-valued field: defined and not ""
Truthy(cfg, f) == f \in DOMAIN cfg /\ cfg[f] # ""

\* String.prototype.trim on the field values in use: the values made of
\* white space only become "", the others carry no outer white space
Trim(s) == IF s \in { "", " ", "  " } THEN "" ELSE s

(* ---------------------------- validation ------------------------------ *)

\* the errors validateProfileSettings pushes, in order
RequiredFieldErrors(config) ==
    LET need(f, msg) == IF Truthy(config, f) THEN << >> ELSE << msg >>
        provider == IF "apiProvider" \in DOMAIN config
                    THEN config["apiProvider"] ELSE ""
    IN  CASE provider = "anthropic" ->
               need("apiKey", "API key is required for Anthropic")
          [] provider = "openai" ->
               need("openAiApiKey", "API key is required for OpenAI")
               \o need("openAiBaseUrl", "Base URL is required for OpenAI")
          [] provider = "glama" ->
               need("glamaApiKey", "API key is required for Glama")
          [] provider = "openrouter" ->
               need("openRouterApiKey", "API key is required for OpenRouter")
          [] provider = "bedrock" ->
               need("awsAccessKey", "Access key is required for AWS Bedrock")
               \o need("awsSecretKey", "Secret key is required for AWS Bedrock")
          [] provider = "vertex" ->
               need("vertexProjectId", "Project ID is required for Vertex AI")
               \o need("vertexRegion", "Region is required for Vertex AI")
          [] provider = "gemini" ->
               need("geminiApiKey", "API key is required for Gemini")
          [] provider = "openai-native" ->
               need("openAiNativeApiKey", "API key is required for OpenAI Native")
          [] provider = "deepseek" ->
               need("deepSeekApiKey", "API key is required for DeepSeek")
          [] provider = "mistral" ->
               need("mistralApiKey", "API key is required for Mistral")
          [] provider \in { "ollama", "lmstudio" } -> << >>
          [] provider = "vscode-lm" ->
               need("vsCodeLmModelSelector",
                    "Model selector is required for VS Code Language Model")
          [] OTHER -> << "Invalid API provider" >>

ModelIdErrors(config) ==
    IF Truthy(config, "apiModelId") /\ Trim(config["apiModelId"]) = ""
    THEN << "Model ID cannot be empty if specified" >>
    ELSE << >>

\* validateProfileSettings without its switch over the provider
validateModelIdOnly(config) ==
    LET errors == ModelIdErrors(config)
    IN  [ isValid |-> Len(errors) = 0, errors |-> errors ]

validateProfileSettings(config) ==
    LET errors == RequiredFieldErrors(config) \o ModelIdErrors(config)
    IN  [ isValid |-> Len(errors) = 0, errors |-> errors ]

\* the characters of the class [a-zA-Z0-9\s-_]; \s is the white space class
WhiteSpace == { " ", "\t", "\n", "\r", "\f" }

Letters ==
    { "a","b","c","d","e","f","g","h","i","j","k","l","m",
      "n","o","p","q","r","s","t","u","v","w","x","y","z",
      "A","B","C","D","E","F","G","H","I","J","K","L","M",
      "N","O","P","Q","R","S","T","U","V","W","X","Y","Z" }

Digits == { "0","1","2","3","4","5","6","7","8","9" }

NameCharClass == Letters \cup Digits \cup WhiteSpace \cup { "-", "_" }

\* validateProfileName on the characters of the name; existing says whether
\* existingNames includes the name
validateNameChars(chars, existing) ==
    LET errors ==
          IF Len(chars) = 0
          THEN << "Profile name is required" >>
          ELSE IF \A i \in 1..Len(chars) : chars[i] \in WhiteSpace
          THEN << "Profile name cannot be empty" >>
          ELSE IF existing
          THEN << "Profile name already exists" >>
          ELSE IF Len(chars) > MaxNameLength
          THEN << "Profile name cannot be longer than 50 characters" >>
          ELSE IF ~ (\A i \in 1..Len(chars) : chars[i] \in NameCharClass)
          THEN << "Profile name can only contain letters, numbers, spaces, hyphens, and underscores" >>
          ELSE << >>
    IN  [ isValid |-> Len(errors) = 0, errors |-> errors ]

\* the profile names the operations are called with, and their characters
Names == { "default", "a", "b", "b/1" }

Chars(name) ==
    CASE name = "default" -> << "d","e","f","a","u","l","t" >>
      [] name = "a"       -> << "a" >>
      [] name = "b"       -> << "b" >>
      [] name = "b/1"     -> << "b","/","1" >>
      [] name = ""        -> << >>

validateProfileName(name, existingNames) ==
    validateNameChars(Chars(name), name \in existingNames)

\* the providers validateProfileTransition takes to need their own credentials
RequiresReauth ==
    { "anthropic", "openai", "glama", "openrouter", "bedrock", "vertex",
      "gemini", "openai-native", "deepseek", "mistral" }

validateProfileTransition(fromConfig, toConfig) ==
    LET prov(c) == IF "apiProvider" \in DOMAIN c THEN c["apiProvider"] ELSE ""
        reauth ==
          IF prov(fromConfig) # prov(toConfig)
             /\ prov(fromConfig) \in RequiresReauth
             /\ prov(toConfig) \in RequiresReauth
          THEN << "Switching between these providers may require re-authentication" >>
          ELSE << >>
        model ==
          IF Truthy(fromConfig, "apiModelId") /\ prov(toConfig) # prov(fromConfig)
          THEN << "Model ID may not be compatible with the new provider" >>
          ELSE << >>
        errors == reauth \o model
    IN  [ isValid |-> Len(errors) = 0, errors |-> errors ]

(* --------------------------- generated ids ----------------------------- *)

\* the n-th value generateId returns; Math.random is taken not to repeat
generateId(n) == "id" \o ToString(n)

(* ----------------------------- documents ------------------------------- *)

EmptyStore == [ shape |-> "empty" ]

Document(keys, profiles, hasGlobal, current, modes) ==
    [ shape |-> "current", keys |-> keys, profiles |-> profiles,
      hasGlobal |-> hasGlobal, current |-> current, modes |-> modes ]

LegacyDocument(keys, apiConfigs, current, modes) ==
    [ shape |-> "legacy", keys |-> keys, profiles |-> apiConfigs,
      hasGlobal |-> FALSE, current |-> current, modes |-> modes ]

NoModes == [ m \in {} |-> "" ]

\* OtherKeys without the filter
AllKeys(keys, name) == keys

\* Object.keys(...).filter((n) => n !== name)
OtherKeys(keys, name) == SelectSeq(keys, LAMBDA n : n # name)

Range(seq) == { seq[i] : i \in 1..Len(seq) }

\* obj[name] = value: a new key goes last, an existing key keeps its place
PutKey(keys, name) == IF name \in Range(keys) THEN keys ELSE Append(keys, name)

\* PutProfile assigning the saved fields into every profile of the document
PutProfileIntoAll(profiles, name, settings) ==
    [ n \in DOMAIN profiles \cup { name } |->
        IF n = name THEN settings
        ELSE [ f \in DOMAIN profiles[n] \cup (DOMAIN settings \ { "id" }) |->
                 IF f \in DOMAIN settings \ { "id" } THEN settings[f]
                 ELSE profiles[n][f] ] ]

\* PutProfile assigning the saved fields over the fields already stored
\* under the name, which keeps those the saved settings lack
PutProfileMerged(profiles, name, settings) ==
    [ n \in DOMAIN profiles \cup { name } |->
        IF n = name /\ n \in DOMAIN profiles
        THEN [ f \in DOMAIN profiles[n] \cup DOMAIN settings |->
                 IF f \in DOMAIN settings THEN settings[f] ELSE profiles[n][f] ]
        ELSE IF n = name THEN settings ELSE profiles[n] ]

PutProfile(profiles, name, settings) ==
    [ n \in DOMAIN profiles \cup { name } |->
        IF n = name THEN settings ELSE profiles[n] ]

\* the names every object inherits a member for from Object.prototype
\* (constructor, toString, ...); obj[name] is then a function, which is
\* truthy, has no enumerable field and no id
ObjectPrototypeNames == { "constructor" }

\* the fields of a function object that a spread or a field access finds
NoFields == [ f \in {} |-> "" ]

\* config.profiles[name] is truthy: the name is a key of profiles, or it
\* names an inherited member
HasProfile(config, name) ==
    name \in DOMAIN config.profiles \/ name \in ObjectPrototypeNames

\* config.profiles[name], when truthy
ProfileAt(config, name) ==
    IF name \in DOMAIN config.profiles THEN config.profiles[name] ELSE NoFields

\* delete obj[name]
DeleteProfile(profiles, name) ==
    [ n \in DOMAIN profiles \ { name } |-> profiles[n] ]

\* the defaultConfig field of a ConfigManager whose initializer drew id
DefaultConfig(id) ==
    Document(<< "default" >>, [ n \in { "default" } |-> [ f \in { "id" } |-> id ] ],
             TRUE, "default", NoModes)

\* readConfig: the stored content parsed, or the manager's own defaultConfig
\* object when nothing is stored
readConfig == IF store.shape = "empty" THEN defaultConfig ELSE store

\* extractProfileSettings spreading the whole configuration
extractEverything(apiConfiguration, fresh) ==
    [ f \in DOMAIN apiConfiguration \cup { "id" } |->
        IF f = "id"
        THEN IF Truthy(apiConfiguration, "id") THEN apiConfiguration["id"] ELSE fresh
        ELSE apiConfiguration[f] ]

\* extractProfileSettings; fresh is what generateId would return
extractProfileSettings(apiConfiguration, fresh) ==
    [ f \in (ProfileFields \cap DOMAIN apiConfiguration) \cup { "id" } |->
        IF f = "id"
        THEN IF Truthy(apiConfiguration, "id") THEN apiConfiguration["id"] ELSE fresh
        ELSE apiConfiguration[f] ]

\* how many ids extractProfileSettings draws
IdsDrawn(apiConfiguration) == IF Truthy(apiConfiguration, "id") THEN 0 ELSE 1

\* profileSettingsToApiConfig: { ...settings }
profileSettingsToApiConfig(settings) == settings

\* ListConfig listing the profiles from the last key to the first
ListConfigReversed(config) ==
    [ i \in 1..Len(config.keys) |->
        LET name == config.keys[Len(config.keys) + 1 - i]
        IN  [ f \in { "name" } \cup ({ "id", "apiProvider" }
                                       \cap DOMAIN config.profiles[name]) |->
                IF f = "name" THEN name ELSE config.profiles[name][f] ] ]

\* ListConfig(): one { name, id, apiProvider } per entry of profiles, in key
\* order; a field the profile does not define is undefined
ListConfig(config) ==
    [ i \in 1..Len(config.keys) |->
        [ f \in { "name" } \cup ({ "id", "apiProvider" }
                                   \cap DOMAIN config.profiles[config.keys[i]]) |->
            IF f = "name" THEN config.keys[i]
            ELSE config.profiles[config.keys[i]][f] ] ]

\* HasConfig(name): name in config.profiles, which holds of inherited
\* members too
HasConfig(config, name) ==
    name \in DOMAIN config.profiles \/ name \in ObjectPrototypeNames

\* GetModeConfigId(mode) on a document with globalSettings; "" when the
\* result is undefined
GetModeConfigId(config, mode) ==
    IF mode \in DOMAIN config.modes THEN config.modes[mode] ELSE ""

(* ----------------------------- operations ------------------------------ *)
(* Each operation is computed on config, the object readConfig returned:   *)
(*   res    "ok" or the error thrown                                       *)
(*   cfg    the object as the operation left it in memory                  *)
(*   writes the documents handed to writeConfig, in order                  *)
(*   ids    how many ids were generated                                    *)
(*   ret    the value returned, "" when none                               *)
(***************************************************************************)

Outcome(res, cfg, writes, ids, ret) ==
    [ res |-> res, cfg |-> cfg, writes |-> writes, ids |-> ids, ret |-> ret ]

Throw(res, cfg) == Outcome(res, cfg, << >>, 0, "")

\* an operation that mutates the object into cfg, writes it and returns ret
WriteAndReturn(cfg, ids, ret) == Outcome("ok", cfg, << cfg >>, ids, ret)

\* SaveConfig(name, config) on the document currentConfig
SaveConfigOutcome(currentConfig, name, config, fresh) ==
    LET profileSettings == extractProfileSettings(config, fresh)
    IN  IF ~ validateProfileSettings(profileSettings).isValid
        THEN Throw("InvalidSettings", currentConfig)
        ELSE IF currentConfig.shape # "current"
        THEN Throw("TypeError", currentConfig)
        ELSE IF ~ validateProfileName(name,
                     Range(OtherKeys(currentConfig.keys, name))).isValid
        THEN Throw("InvalidName", currentConfig)
        ELSE WriteAndReturn(
               [ currentConfig EXCEPT
                   !.keys = PutKey(@, name),
                   !.profiles = PutProfile(@, name, profileSettings) ],
               IdsDrawn(config), "")

\* LoadConfig throwing when the profile fails validateProfileSettings
LoadValidOutcome(config, name) ==
    IF config.shape # "current"
    THEN Throw("TypeError", config)
    ELSE IF ~ HasProfile(config, name)
    THEN Throw("NotFound", config)
    ELSE IF ~ validateProfileSettings(ProfileAt(config, name)).isValid
    THEN Throw("InvalidSettings", config)
    ELSE IF ~ config.hasGlobal
    THEN Throw("TypeError", config)
    ELSE WriteAndReturn([ config EXCEPT !.current = name ], 0,
                        profileSettingsToApiConfig(ProfileAt(config, name)))

\* LoadConfig(name); a profile that fails validateProfileSettings is only
\* warned about
LoadConfigOutcome(config, name) ==
    IF config.shape # "current"
    THEN Throw("TypeError", config)
    ELSE IF ~ HasProfile(config, name)
    THEN Throw("NotFound", config)
    ELSE IF ~ config.hasGlobal
    THEN Throw("TypeError", config)
    ELSE WriteAndReturn([ config EXCEPT !.current = name ], 0,
                        profileSettingsToApiConfig(ProfileAt(config, name)))

\* IsLastProfile comparing the length with 0
IsNoProfile(currentConfig) == Len(currentConfig.keys) = 0

\* Object.keys(currentConfig.profiles).length === 1
IsLastProfile(currentConfig) == Len(currentConfig.keys) = 1

\* NewCurrentName without the filter on the deleted name
FirstKey(keys, name) == IF keys = << >> THEN "" ELSE Head(keys)

\* Object.keys(currentConfig.profiles).find((n) => n !== name); "" when
\* find returns undefined
NewCurrentName(keys, name) ==
    IF OtherKeys(keys, name) = << >> THEN "" ELSE Head(OtherKeys(keys, name))

\* delete modeApiConfigs[mode] for every mode bound to the profile's id
PruneModes(modes, profile) ==
    [ m \in { k \in DOMAIN modes :
                ~ ("id" \in DOMAIN profile /\ modes[k] = profile["id"]) } |->
        modes[m] ]

\* DeleteConfig(name)
DeleteConfigOutcome(currentConfig, name) ==
    IF currentConfig.shape # "current"
    THEN Throw("TypeError", currentConfig)
    ELSE IF ~ HasProfile(currentConfig, name)
    THEN Throw("NotFound", currentConfig)
    ELSE IF IsLastProfile(currentConfig)
    THEN Throw("LastProfile", currentConfig)
    ELSE IF ~ currentConfig.hasGlobal
    THEN Throw("TypeError", currentConfig)
    ELSE WriteAndReturn(
           [ currentConfig EXCEPT
               !.current = IF @ = name
                              /\ NewCurrentName(currentConfig.keys, name) # ""
                           THEN NewCurrentName(currentConfig.keys, name) ELSE @,
               !.modes = PruneModes(@, ProfileAt(currentConfig, name)),
               !.keys = OtherKeys(@, name),
               !.profiles = DeleteProfile(@, name) ],
           0, "")

\* SetCurrentConfig assigning a new globalSettings object that holds the
\* name alone
SetCurrentConfigAlone(currentConfig, name) ==
    IF currentConfig.shape # "current"
    THEN Throw("TypeError", currentConfig)
    ELSE IF ~ HasProfile(currentConfig, name)
    THEN Throw("NotFound", currentConfig)
    ELSE WriteAndReturn([ currentConfig EXCEPT !.hasGlobal = TRUE,
                                               !.current = name,
                                               !.modes = NoModes ], 0, "")

\* SetCurrentConfig(name)
SetCurrentConfigOutcome(currentConfig, name) ==
    IF currentConfig.shape # "current"
    THEN Throw("TypeError", currentConfig)
    ELSE IF ~ HasProfile(currentConfig, name)
    THEN Throw("NotFound", currentConfig)
    ELSE IF ~ currentConfig.hasGlobal
    THEN Throw("TypeError", currentConfig)
    ELSE WriteAndReturn([ currentConfig EXCEPT !.current = name ], 0, "")

\* SetModeConfig assigning a new modeApiConfigs object that holds the one mode
SetModeConfigAlone(currentConfig, mode, configId) ==
    IF ~ currentConfig.hasGlobal
    THEN Throw("TypeError", currentConfig)
    ELSE WriteAndReturn(
           [ currentConfig EXCEPT !.modes = [ m \in { mode } |-> configId ] ],
           0, "")

\* SetModeConfig(mode, configId)
SetModeConfigOutcome(currentConfig, mode, configId) ==
    IF ~ currentConfig.hasGlobal
    THEN Throw("TypeError", currentConfig)
    ELSE WriteAndReturn(
           [ currentConfig EXCEPT
               !.modes = [ m \in DOMAIN @ \cup { mode } |->
                             IF m = mode THEN configId ELSE @[m] ] ],
           0, "")

\* the profiles after  profiles[newName] = profiles[oldName]; delete profiles[oldName]
MoveProfile(profiles, oldName, newName) ==
    DeleteProfile(PutProfile(profiles, newName, profiles[oldName]), oldName)

\* RenameConfig(oldName, newName), for an oldName that names no inherited
\* member
RenameConfigOutcome(currentConfig, oldName, newName) ==
    IF currentConfig.shape # "current"
    THEN Throw("TypeError", currentConfig)
    ELSE IF oldName \notin DOMAIN currentConfig.profiles
    THEN Throw("NotFound", currentConfig)
    ELSE IF ~ validateProfileName(newName,
                 Range(OtherKeys(currentConfig.keys, oldName))).isValid
    THEN Throw("InvalidName", currentConfig)
    ELSE LET moved == [ currentConfig EXCEPT
                          !.keys = OtherKeys(PutKey(@, newName), oldName),
                          !.profiles = MoveProfile(@, oldName, newName) ]
             renamed == [ moved EXCEPT
                            !.current = IF @ = oldName THEN newName ELSE @ ]
         IN  IF ~ currentConfig.hasGlobal
             THEN Throw("TypeError", moved)
             ELSE IF DOMAIN renamed.modes # {}
                     /\ oldName \notin DOMAIN renamed.profiles
             \* the loop over modeApiConfigs reads profiles[oldName].id
             \* after profiles[oldName] was deleted
             THEN Throw("TypeError", renamed)
             ELSE WriteAndReturn(renamed, 0, "")
\* LacksId taking every profile to lack an id
AlwaysLacksId(profile) == TRUE

\* !profile.id
LacksId(profile) == ~ Truthy(profile, "id")

\* FreshFor handing the same id to every entry
FreshSame(keys, profiles, i, next) == generateId(next)

\* the id generateId returns for the i-th key when the keys are visited in
\* order and an id is drawn for every entry that lacks one
FreshFor(keys, profiles, i, next) ==
    generateId(next + Cardinality({ j \in 1..(i - 1) : LacksId(profiles[keys[j]]) }))

IndexOf(keys, name) == CHOOSE i \in 1..Len(keys) : keys[i] = name

IdsLacking(keys, profiles) ==
    Cardinality({ j \in 1..Len(keys) : LacksId(profiles[keys[j]]) })

\* MigrateConfig copying the old entries as they are, without ids
MigrateVerbatim(oldConfig, next) ==
    Document(oldConfig.keys, oldConfig.profiles, TRUE,
             IF oldConfig.current # "" THEN oldConfig.current ELSE "default",
             oldConfig.modes)

\* the migration of an old-structure document (initConfig, "apiConfigs" in config)
MigrateConfig(oldConfig, next) ==
    Document(oldConfig.keys,
             [ name \in DOMAIN oldConfig.profiles |->
                 extractProfileSettings(oldConfig.profiles[name],
                     FreshFor(oldConfig.keys, oldConfig.profiles,
                              IndexOf(oldConfig.keys, name), next)) ],
             TRUE,
             IF oldConfig.current # "" THEN oldConfig.current ELSE "default",
             oldConfig.modes)

\* initConfig: "Ensure all configs have IDs"
BackfillIds(config, next) ==
    [ config EXCEPT
        !.profiles = [ name \in DOMAIN @ |->
            IF LacksId(@[name])
            THEN [ f \in DOMAIN @[name] \cup { "id" } |->
                     IF f = "id"
                     THEN FreshFor(config.keys, config.profiles,
                                   IndexOf(config.keys, name), next)
                     ELSE @[name][f] ]
            ELSE @[name] ] ]

\* initConfig: "Ensure global settings exist"
BackfillGlobalSettings(config) ==
    [ config EXCEPT
        !.hasGlobal = TRUE,
        !.current = IF "default" \in DOMAIN config.profiles THEN "default"
                    ELSE IF Len(config.keys) > 0 THEN config.keys[1] ELSE "",
        !.modes = NoModes ]

\* initConfig()
InitConfigOutcome(config, next) ==
    IF config.shape = "legacy"
    THEN \* the migrated document is written; then, config having no
         \* globalSettings, config.profiles["default"] is read of a config
         \* that has no profiles
         Outcome("TypeError", config, << MigrateConfig(config, next) >>,
                 IdsLacking(config.keys, config.profiles), "")
    ELSE LET lacking == IdsLacking(config.keys, config.profiles)
             withIds == BackfillIds(config, next)
             withGlobal == BackfillGlobalSettings(withIds)
         IN  Outcome("ok",
                     IF config.hasGlobal THEN withIds ELSE withGlobal,
                     (IF lacking > 0 THEN << withIds >> ELSE << >>)
                       \o (IF config.hasGlobal THEN << >> ELSE << withGlobal >>),
                     lacking, "")
(* ------------------------------- inputs -------------------------------- *)

\* the configurations SaveConfig is called with: a complete one, one that
\* fails validation, and one that bundles global settings
Configs ==
    [ anthropic |-> [ apiProvider |-> "anthropic", apiKey |-> "sk-1" ],
      bedrockNoSecret |-> [ apiProvider |-> "bedrock", awsAccessKey |-> "k" ],
      ollamaGlobals |-> [ apiProvider |-> "ollama", apiModelId |-> "m",
                           currentApiConfigName |-> "b",
                           alwaysAllowWrite |-> "true",
                           modeApiConfigs |-> "code" ] ]

\* config with its id field set; id "" leaves the configuration without one
WithId(config, id) ==
    IF id = "" THEN config
    ELSE [ f \in DOMAIN config \cup { "id" } |-> IF f = "id" THEN id ELSE config[f] ]

\* the ids the profiles of a document carry
ProfileIds(config) ==
    { config.profiles[n]["id"] :
        n \in { k \in DOMAIN config.profiles : "id" \in DOMAIN config.profiles[k] } }

\* an id no profile carries
UnknownId == "id0"

\* the id of the profile named by currentApiConfigName, which is the id a
\* caller holds after LoadConfig
CurrentId(config) ==
    IF /\ config.shape = "current"
       /\ config.current \in DOMAIN config.profiles
       /\ "id" \in DOMAIN config.profiles[config.current]
    THEN { config.profiles[config.current]["id"] }
    ELSE {}

\* the names LoadConfig, SetCurrentConfig and DeleteConfig are called with
LookupNames == Names \cup ObjectPrototypeNames

\* what the backing store may hold when a ConfigManager is first constructed
\* over it: nothing, an old-structure document, or a document of the
\* current structure written before ids and globalSettings were ensured
InitialStores ==
    { EmptyStore,
      LegacyDocument(<< "a", "b" >>,
                     [ a |-> Configs["anthropic"], b |-> Configs["ollamaGlobals"] ],
                     "b", [ code |-> "a" ]),
      LegacyDocument(<< "b/1" >>, [ n \in { "b/1" } |-> Configs["anthropic"] ],
                     "", NoModes),
      Document(<< "default", "a" >>,
               [ default |-> [ apiProvider |-> "ollama" ],
                 a |-> WithId(Configs["anthropic"], "old1") ],
               FALSE, "", NoModes),
      Document(<< "a", "b" >>,
               [ a |-> Configs["anthropic"], b |-> [ apiProvider |-> "ollama" ] ],
               TRUE, "a", NoModes) }

(* ------------------------------- actions ------------------------------- *)

\* lastOp is the call whose promise has settled and whose caller has not yet
\* resumed: the operation, the profile name (or mode) it was called with and
\* its second argument when RenameConfig (arg, "" otherwise), how it ended,
\* "ok" or the error thrown, and how many calls of writeConfig it completed.
\* Idle when no call is at that point.
Op(op, name) ==
    [ op |-> op, name |-> name, arg |-> "", res |-> "ok", writes |-> 0 ]

Idle == Op("", "")

\* pending holds the calls that have read the document and not yet gone on
\* (each awaits readConfig); it is empty where every call is awaited before
\* the next is made.  applied is the last application of a validation
\* function, with its arguments and result.
NoApplication == [ fn |-> "" ]

\* The effect of an operation whose outcome on readConfig's object is out,
\* when the failAt-th call of writeConfig rejects (0: none does).  The object
\* is the manager's defaultConfig itself when nothing is stored; once a
\* document is stored readConfig never returns defaultConfig again, and the
\* model then keeps DefaultConfig("") for it.
Perform(op, out, failAt) ==
    LET attempts == Len(out.writes)
        failed == failAt \in 1..attempts
        written == IF failed THEN failAt - 1 ELSE attempts
    IN  /\ lastOp = Idle
        /\ failAt <= attempts
        /\ nextId + out.ids - 1 <= MaxId
        /\ out.cfg.shape = "current" => Len(out.cfg.keys) <= MaxProfiles
        /\ store' = IF written = 0 THEN store ELSE out.writes[written]
        /\ defaultConfig' = IF store'.shape = "empty" THEN out.cfg ELSE DefaultConfig("")
        /\ nextId' = nextId + out.ids
        /\ lastOp' = [ op EXCEPT !.res = IF failed THEN "StorageFailure" ELSE out.res,
                              !.writes = written ]
        /\ UNCHANGED << pending, applied >>

\* new ConfigManager(context) over the same backing store: the initializer
\* of defaultConfig draws an id
Construct ==
    /\ lastOp = Idle
    /\ store.shape = "empty" => nextId <= MaxId
    /\ defaultConfig' = IF store.shape = "empty"
                        THEN DefaultConfig(generateId(nextId)) ELSE DefaultConfig("")
    /\ nextId' = IF store.shape = "empty" THEN nextId + 1 ELSE nextId
    /\ lastOp' = Op("construct", "")
    /\ UNCHANGED << store, pending, applied >>

InitConfigStep(failAt) ==
    Perform(Op("init", ""), InitConfigOutcome(readConfig, nextId), failAt)

InitConfig(F) == \E failAt \in F : InitConfigStep(failAt)

SaveConfigStep(name, key, id, failAt) ==
    Perform(Op("save", name),
            SaveConfigOutcome(readConfig, name, WithId(Configs[key], id),
                              generateId(nextId)),
            failAt)

SaveConfig(F) ==
    \E name \in Names, key \in DOMAIN Configs, failAt \in F :
      \E id \in { "" } \cup CurrentId(readConfig) :
        SaveConfigStep(name, key, id, failAt)

LoadConfigStep(name, failAt) ==
    Perform(Op("load", name), LoadConfigOutcome(readConfig, name), failAt)

LoadConfig(F) ==
    \E name \in LookupNames, failAt \in F : LoadConfigStep(name, failAt)

DeleteConfigStep(name, failAt) ==
    Perform(Op("delete", name), DeleteConfigOutcome(readConfig, name), failAt)

DeleteConfig(F) ==
    \E name \in LookupNames, failAt \in F : DeleteConfigStep(name, failAt)

SetCurrentConfigStep(name, failAt) ==
    Perform(Op("setCurrent", name), SetCurrentConfigOutcome(readConfig, name), failAt)

SetCurrentConfig(F) ==
    \E name \in LookupNames, failAt \in F : SetCurrentConfigStep(name, failAt)

SetModeConfigStep(mode, configId, failAt) ==
    Perform(Op("setMode", mode),
            SetModeConfigOutcome(readConfig, mode, configId), failAt)

SetModeConfig(F) ==
    \E mode \in BoundModes, failAt \in F :
      \E configId \in { UnknownId } \cup CurrentId(readConfig) :
        SetModeConfigStep(mode, configId, failAt)

RenameConfigStep(oldName, newName, failAt) ==
    Perform([ Op("rename", oldName) EXCEPT !.arg = newName ],
            RenameConfigOutcome(readConfig, oldName, newName), failAt)

RenameConfig(F) ==
    \E oldName \in Names, newName \in Names, failAt \in F :
        RenameConfigStep(oldName, newName, failAt)

\* handleSelectConfig(configName) of the ApiConfigManager component, whose
\* apiConfiguration is Configs[key]: validateProfileTransition is applied to
\* apiConfiguration and the name, a string, which has none of the fields; only
\* when the result is valid is onSelectConfig called, which posts
\* loadApiConfiguration, handled by LoadConfig(configName)
HandleSelectConfigStep(configName, key) ==
    IF validateProfileTransition(Configs[key], NoFields).isValid
    THEN Perform([ Op("select", configName) EXCEPT !.arg = key ],
                 LoadConfigOutcome(readConfig, configName), 0)
    ELSE /\ lastOp = Idle
         /\ lastOp' = [ Op("select", configName) EXCEPT !.arg = key,
                                                         !.res = "Blocked" ]
         /\ UNCHANGED << store, defaultConfig, nextId, pending, applied >>

HandleSelectConfig ==
    \E configName \in Names, key \in DOMAIN Configs :
        HandleSelectConfigStep(configName, key)

\* the caller of the settled operation resumes
Return ==
    /\ lastOp # Idle
    /\ lastOp' = Idle
    /\ UNCHANGED << store, defaultConfig, nextId, pending, applied >>

Init ==
    /\ store \in InitialStores
    /\ defaultConfig = DefaultConfig(generateId(1))
    /\ nextId = 2
    /\ lastOp = Idle
    /\ pending = << >>
    /\ applied = NoApplication

\* writeConfig never rejects
NoFailure == { 0 }

\* any one call of writeConfig may reject
AnyFailure == { 0, 1, 2 }

Operation(F) ==
    \/ InitConfig(F)
    \/ SaveConfig(F)
    \/ LoadConfig(F)
    \/ DeleteConfig(F)
    \/ SetCurrentConfig(F)
    \/ SetModeConfig(F)
    \/ RenameConfig(F)

\* the store over a backing key-value store that accepts every write
Next ==
    \/ Construct
    \/ Operation(NoFailure)
    \/ Return

Spec == Init /\ [][Next]_vars

\* the store over a backing key-value store whose writes may be rejected,
\* constructed over an empty store
InitStorage == Init /\ store = EmptyStore

NextStorage ==
    \/ Construct
    \/ Operation(AnyFailure)
    \/ Return

SpecStorage == InitStorage /\ [][NextStorage]_vars

\* the store driven by the webview: configurations are saved and profiles
\* selected through the ApiConfigManager component
NextAdapter ==
    \/ Construct
    \/ InitConfig(NoFailure)
    \/ SaveConfig(NoFailure)
    \/ HandleSelectConfig
    \/ Return

SpecAdapter == Init /\ [][NextAdapter]_vars

\* The calls made without awaiting the one before.  Each call first awaits
\* readConfig and then runs to its writeConfig without another await that
\* lets a call in between (JSON.stringify is evaluated when writeConfig is
\* called); the writes reach the store in the order they are issued.
InterleavedCalls ==
    { [ op |-> "save", name |-> "a", arg |-> "anthropic" ],
      [ op |-> "save", name |-> "b", arg |-> "ollamaGlobals" ],
      [ op |-> "delete", name |-> "a", arg |-> "" ],
      [ op |-> "load", name |-> "b", arg |-> "" ],
      [ op |-> "setCurrent", name |-> "default", arg |-> "" ],
      [ op |-> "rename", name |-> "a", arg |-> "b" ],
      [ op |-> "setMode", name |-> "code", arg |-> UnknownId ],
      [ op |-> "init", name |-> "", arg |-> "" ] }

\* what the call computes on config, the object its readConfig returned
OutcomeOf(call, config, next) ==
    CASE call.op = "save" ->
           SaveConfigOutcome(config, call.name, Configs[call.arg], generateId(next))
      [] call.op = "delete" -> DeleteConfigOutcome(config, call.name)
      [] call.op = "load" -> LoadConfigOutcome(config, call.name)
      [] call.op = "setCurrent" -> SetCurrentConfigOutcome(config, call.name)
      [] call.op = "rename" -> RenameConfigOutcome(config, call.name, call.arg)
      [] call.op = "setMode" -> SetModeConfigOutcome(config, call.name, call.arg)
      [] call.op = "init" -> InitConfigOutcome(config, next)

\* a call is made and its readConfig resolves: it holds the parsed content,
\* its own object, or (alias) the manager's defaultConfig object itself;
\* snap is what the object held at that moment
BeginStep(call) ==
    /\ lastOp = Idle
    /\ Len(pending) < MaxPending
    /\ pending' = Append(pending,
                         [ op |-> call.op, name |-> call.name, arg |-> call.arg,
                           alias |-> store.shape = "empty", snap |-> readConfig ])
    /\ UNCHANGED << store, defaultConfig, nextId, lastOp, applied >>

Begin == \E call \in InterleavedCalls : BeginStep(call)

\* the sequence without its i-th element
Without(seq, i) == SubSeq(seq, 1, i - 1) \o SubSeq(seq, i + 1, Len(seq))

\* the object the i-th pending call works on
Held(i) == IF pending[i].alias THEN defaultConfig ELSE pending[i].snap

\* the i-th pending call goes on from its readConfig to its end
FinishStep(i) ==
    /\ i \in 1..Len(pending)
    /\ lastOp = Idle
    /\ LET call == pending[i]
           out == OutcomeOf(call, Held(i), nextId)
           rest == Without(pending, i)
           object == IF call.alias THEN out.cfg ELSE defaultConfig
       IN  /\ nextId + out.ids - 1 <= MaxId
           /\ out.cfg.shape = "current" => Len(out.cfg.keys) <= MaxProfiles
           /\ store' = IF out.writes = << >> THEN store
                       ELSE out.writes[Len(out.writes)]
           /\ defaultConfig' =
                IF store'.shape = "empty" \/ \E j \in 1..Len(rest) : rest[j].alias
                THEN object ELSE DefaultConfig("")
           /\ nextId' = nextId + out.ids
           /\ lastOp' = [ Op(call.op, call.name) EXCEPT
                            !.arg = call.arg, !.res = out.res,
                            !.writes = Len(out.writes) ]
           /\ pending' = rest
           /\ UNCHANGED applied

Finish == \E i \in 1..MaxPending : FinishStep(i)

\* the store under calls that are not awaited one by one
NextInterleave ==
    \/ Begin
    \/ Finish
    \/ Return

SpecInterleave == Init /\ [][NextInterleave]_vars

\* the providers validateProfileSettings has a case for
KnownProviders ==
    { "anthropic", "openai", "glama", "openrouter", "bedrock", "vertex",
      "gemini", "openai-native", "deepseek", "mistral", "ollama", "lmstudio",
      "vscode-lm" }

\* the fields each case of validateProfileSettings reads
CheckedFields(provider) ==
    CASE provider = "anthropic" -> << "apiKey" >>
      [] provider = "openai" -> << "openAiApiKey", "openAiBaseUrl" >>
      [] provider = "glama" -> << "glamaApiKey" >>
      [] provider = "openrouter" -> << "openRouterApiKey" >>
      [] provider = "bedrock" -> << "awsAccessKey", "awsSecretKey" >>
      [] provider = "vertex" -> << "vertexProjectId", "vertexRegion" >>
      [] provider = "gemini" -> << "geminiApiKey" >>
      [] provider = "openai-native" -> << "openAiNativeApiKey" >>
      [] provider = "deepseek" -> << "deepSeekApiKey" >>
      [] provider = "mistral" -> << "mistralApiKey" >>
      [] provider = "vscode-lm" -> << "vsCodeLmModelSelector" >>
      [] OTHER -> << "apiKey" >>

\* marks a field the configuration does not define
Undefined == "undefined"

\* the values a field is given: left out, empty, blank, set
FieldValues == { Undefined, "", "  ", "v" }

\* the configuration with the given provider, values of the fields its case
\* reads (first, second) and model id, each left out when Undefined
MakeConfig(provider, first, second, modelId) ==
    LET fields == CheckedFields(provider)
        value(f) == IF f = "apiProvider" THEN provider
                    ELSE IF f = "apiModelId" THEN modelId
                    ELSE IF f = fields[1] THEN first ELSE second
    IN  [ f \in { g \in { "apiProvider", "apiModelId" } \cup Range(fields) :
                    value(g) # Undefined } |-> value(f) ]

\* the configurations validateProfileSettings and validateProfileTransition
\* are applied to: every known provider, one that is not known, none
ValidationInputs ==
    { MakeConfig(provider, first, second, modelId) :
        provider \in KnownProviders \cup { "other", Undefined },
        first \in FieldValues \ { "  " }, second \in FieldValues \ { "  " },
        modelId \in FieldValues }

\* the characters the names given to validateProfileName are made of
NameAlphabet == { "a", "Z", "0", " ", "\t", "-", "_", "/" }

\* the name of n letters
LongName(n) == [ i \in 1..n |-> "a" ]

\* the names validateProfileName is applied to, as character sequences: all
\* of up to two characters, and those at the length limit
NameInputs ==
    UNION { [ 1..n -> NameAlphabet ] : n \in 0..2 }
      \cup { LongName(MaxNameLength), LongName(MaxNameLength + 1),
             Append(LongName(MaxNameLength), "/") }

ValidateSettings ==
    /\ \E config \in ValidationInputs :
         applied' = [ fn |-> "validateProfileSettings", config |-> config,
                      result |-> validateProfileSettings(config) ]
    /\ UNCHANGED << store, defaultConfig, nextId, lastOp, pending >>

ValidateName ==
    /\ \E chars \in NameInputs, existing \in BOOLEAN :
         applied' = [ fn |-> "validateProfileName", name |-> chars,
                      existing |-> existing,
                      result |-> validateNameChars(chars, existing) ]
    /\ UNCHANGED << store, defaultConfig, nextId, lastOp, pending >>

\* the configurations validateProfileTransition is applied to
TransitionInputs ==
    { MakeConfig(provider, "v", "v", modelId) :
        provider \in { "anthropic", "openai", "ollama", "lmstudio", Undefined },
        modelId \in { Undefined, "", "m", "n" } }

ValidateTransition ==
    /\ \E fromConfig \in TransitionInputs, toConfig \in TransitionInputs :
         applied' = [ fn |-> "validateProfileTransition", fromConfig |-> fromConfig,
                      toConfig |-> toConfig,
                      result |-> validateProfileTransition(fromConfig, toConfig) ]
    /\ UNCHANGED << store, defaultConfig, nextId, lastOp, pending >>

\* what the next awaited call reads after a call with the outcome out made
\* on config: the last document written, config itself when none was
After(config, out) ==
    IF out.writes = << >> THEN config ELSE out.writes[Len(out.writes)]

\* the renameApiConfiguration handler of the provider: LoadConfig(oldName),
\* SaveConfig(newName, config), DeleteConfig(oldName), each awaited; a call
\* that throws ends the handler
RenameApiConfigurationOutcome(config, oldName, newName, next) ==
    LET loaded == LoadConfigOutcome(config, oldName)
        saved == SaveConfigOutcome(After(config, loaded), newName, loaded.ret,
                                   generateId(next))
        deleted == DeleteConfigOutcome(After(After(config, loaded), saved), oldName)
    IN  IF loaded.res # "ok" THEN loaded
        ELSE IF saved.res # "ok"
        THEN Outcome(saved.res, saved.cfg, loaded.writes, 0, "")
        ELSE Outcome(deleted.res, deleted.cfg,
                     loaded.writes \o saved.writes \o deleted.writes,
                     IdsDrawn(loaded.ret), "")

RenameApiConfigurationStep(oldName, newName) ==
    Perform([ Op("renameApiConfiguration", oldName) EXCEPT !.arg = newName ],
            RenameApiConfigurationOutcome(readConfig, oldName, newName, nextId), 0)

RenameApiConfiguration ==
    \E oldName \in Names, newName \in Names :
        RenameApiConfigurationStep(oldName, newName)

\* the provider's rename handler beside the operations that make the
\* document, add profiles, select one and bind modes
NextHandlers ==
    \/ Construct
    \/ InitConfig(NoFailure)
    \/ SaveConfig(NoFailure)
    \/ LoadConfig(NoFailure)
    \/ SetModeConfig(NoFailure)
    \/ RenameApiConfiguration
    \/ Return

SpecHandlers == Init /\ [][NextHandlers]_vars

\* ListConfig(): reads the document and returns the list, recorded in
\* applied; Object.entries of the profiles an old-structure document lacks
\* throws
ListConfigCall ==
    /\ lastOp = Idle
    /\ lastOp' = [ Op("list", "") EXCEPT
                     !.res = IF readConfig.shape = "current" THEN "ok" ELSE "TypeError" ]
    /\ applied' = IF readConfig.shape = "current"
                  THEN [ fn |-> "ListConfig", result |-> ListConfig(readConfig) ]
                  ELSE NoApplication
    /\ UNCHANGED << store, defaultConfig, nextId, pending >>

\* the list beside the operations that make the document and add and remove
\* profiles
NextList ==
    \/ Construct
    \/ InitConfig(NoFailure)
    \/ SaveConfig(NoFailure)
    \/ DeleteConfig(NoFailure)
    \/ ListConfigCall
    \/ Return

SpecList == Init /\ [][NextList]_vars

\* SetModeConfig called with any mode and any id, of a profile or of none
SetAnyModeConfig ==
    \E mode \in Modes, configId \in { UnknownId } \cup ProfileIds(readConfig) :
      SetModeConfigStep(mode, configId, 0)

\* the mode bindings beside the operations that make and initialise the
\* document and add profiles to it
NextModes ==
    \/ Construct
    \/ InitConfig(NoFailure)
    \/ SaveConfig(NoFailure)
    \/ SetAnyModeConfig
    \/ Return

SpecModes == Init /\ [][NextModes]_vars

\* the validation functions applied to their inputs
InitValidate == Init /\ store = EmptyStore

NextValidate ==
    \/ ValidateSettings
    \/ ValidateName
    \/ ValidateTransition

SpecValidate == InitValidate /\ [][NextValidate]_vars

\* the store constructed over an old-structure document
InitMigration == Init /\ store.shape = "legacy"

SpecMigration == InitMigration /\ [][Next]_vars
(* ------------------------------- claims -------------------------------- *)

\* the document the operations work on, when it has the current structure
IsDocument == readConfig.shape = "current"

HasGlobalSettings == IsDocument /\ readConfig.hasGlobal

\* C1: the profiles mapping of the document is never empty.
C1_ProfilesNeverEmpty ==
    IsDocument => Len(readConfig.keys) > 0 /\ DOMAIN readConfig.profiles # {}

\* C2: currentApiConfigName is always a key of profiles.
C2_CurrentKeysIntoProfiles ==
    HasGlobalSettings => readConfig.current \in DOMAIN readConfig.profiles

\* C3: no two distinct profile names carry the same id.
C3_IdsUnique ==
    IsDocument =>
      \A n1 \in DOMAIN readConfig.profiles, n2 \in DOMAIN readConfig.profiles :
        ( /\ n1 # n2
          /\ "id" \in DOMAIN readConfig.profiles[n1]
          /\ "id" \in DOMAIN readConfig.profiles[n2] )
        => readConfig.profiles[n1]["id"] # readConfig.profiles[n2]["id"]

\* the step is a call op(name) that has settled
Called(op, name) == lastOp = Idle /\ lastOp'.op = op /\ lastOp'.name = name

\* the ids a configuration passed to SaveConfig may carry
PassedIds == { "" } \cup CurrentId(readConfig)

\* C4: a successful save to an existing name leaves the stored id as it was,
\* whatever id the configuration carries, and after a successful rename the
\* profile under the new name has the id the old name had.
C4_IdUnchangedBySaveAndRename ==
    [][ \A name \in Names :
        /\ Called("save", name) =>
             \A key \in DOMAIN Configs, id \in PassedIds, failAt \in AnyFailure :
               ( /\ SaveConfigStep(name, key, id, failAt)
                 /\ lastOp'.res = "ok"
                 /\ name \in DOMAIN readConfig.profiles
                 /\ "id" \in DOMAIN readConfig.profiles[name] )
               => readConfig'.profiles[name]["id"] = readConfig.profiles[name]["id"]
        /\ Called("rename", name) =>
             \A newName \in Names, failAt \in AnyFailure :
               ( /\ RenameConfigStep(name, newName, failAt)
                 /\ lastOp'.res = "ok"
                 /\ "id" \in DOMAIN readConfig.profiles[name] )
               => /\ newName \in DOMAIN readConfig'.profiles
                  /\ "id" \in DOMAIN readConfig'.profiles[newName]
                  /\ readConfig'.profiles[newName]["id"] = readConfig.profiles[name]["id"]
      ]_vars

\* C5: a save under one name leaves every profile stored under another name
\* as it was, field for field.
C5_SaveLeavesOtherProfiles ==
    [][ \A name \in Names :
          Called("save", name) =>
            \A key \in DOMAIN Configs, id \in PassedIds, failAt \in AnyFailure :
              ( SaveConfigStep(name, key, id, failAt) /\ IsDocument )
              => \A other \in DOMAIN readConfig.profiles \ { name } :
                   /\ other \in DOMAIN readConfig'.profiles
                   /\ readConfig'.profiles[other] = readConfig.profiles[other]
      ]_vars

\* a save has just stored a profile beside a profile of another provider
C5_Witness ==
    /\ lastOp.op = "save" /\ lastOp.res = "ok"
    /\ \E other \in DOMAIN readConfig.profiles \ { lastOp.name } :
         /\ "apiProvider" \in DOMAIN readConfig.profiles[other]
         /\ readConfig.profiles[other]["apiProvider"]
              # readConfig.profiles[lastOp.name]["apiProvider"]

\* C6: a save stores under the name only fields of the profile, none of the
\* global settings the configuration may carry, and leaves globalSettings
\* as it was.
C6_SaveKeepsGlobalSettingsOut ==
    [][ \A name \in Names :
          Called("save", name) =>
            \A key \in DOMAIN Configs, id \in PassedIds, failAt \in AnyFailure :
              SaveConfigStep(name, key, id, failAt)
              => /\ readConfig'.hasGlobal = readConfig.hasGlobal
                 /\ readConfig'.current = readConfig.current
                 /\ readConfig'.modes = readConfig.modes
                 /\ lastOp'.res = "ok" =>
                      /\ DOMAIN readConfig'.profiles[name]
                           \subseteq ProfileFields \cup { "id" }
                      /\ \A f \in DOMAIN readConfig'.profiles[name] \ { "id" } :
                           /\ f \in DOMAIN Configs[key]
                           /\ readConfig'.profiles[name][f] = Configs[key][f]
      ]_vars

\* a save of the configuration that bundles global settings has succeeded
C6_Witness ==
    /\ lastOp.op = "save" /\ lastOp.res = "ok"
    /\ DOMAIN readConfig.profiles[lastOp.name] = { "id", "apiProvider", "apiModelId" }
    /\ readConfig.profiles[lastOp.name]["apiModelId"] = Configs["ollamaGlobals"]["apiModelId"]

\* C7: a save of a bedrock configuration with an access key and no secret
\* key throws the invalid-configuration error, calls writeConfig at no point
\* and leaves the document as it was; a name that was absent stays absent.
C7_InvalidSaveChangesNothing ==
    [][ \A name \in Names :
          Called("save", name) =>
            \A id \in PassedIds, failAt \in AnyFailure :
              SaveConfigStep(name, "bedrockNoSecret", id, failAt)
              => /\ lastOp'.res = "InvalidSettings"
                 /\ SaveConfigOutcome(readConfig, name,
                        WithId(Configs["bedrockNoSecret"], id),
                        generateId(nextId)).writes = << >>
                 /\ store' = store
                 /\ readConfig' = readConfig
      ]_vars

\* a save under a new name has been refused for its settings
C7_Witness ==
    /\ lastOp.op = "save" /\ lastOp.res = "InvalidSettings"
    /\ IsDocument /\ lastOp.name \notin DOMAIN readConfig.profiles

\* C8: deleting the only profile throws the last-profile error, calls
\* writeConfig at no point and leaves the document as it was.
C8_LastProfileProtected ==
    [][ \A name \in Names :
          Called("delete", name) =>
            \A failAt \in AnyFailure :
              ( /\ DeleteConfigStep(name, failAt)
                /\ IsDocument
                /\ readConfig.keys = << name >> )
              => /\ lastOp'.res = "LastProfile"
                 /\ DeleteConfigOutcome(readConfig, name).writes = << >>
                 /\ store' = store
                 /\ readConfig' = readConfig
      ]_vars

\* a delete of the only profile has been refused
C8_Witness ==
    /\ lastOp.op = "delete" /\ lastOp.res = "LastProfile"
    /\ readConfig.keys = << lastOp.name >>

C10_ModeBindingsReferToProfiles ==
    HasGlobalSettings =>
      \A m \in DOMAIN readConfig.modes : readConfig.modes[m] \in ProfileIds(readConfig)

\* C11: a rename of an existing profile to a valid name that collides with
\* no profile succeeds on every document with globalSettings, whatever
\* modeApiConfigs holds: the old name is gone, the new name holds the profile
\* the old name held, currentApiConfigName follows the profile when it named
\* it and is unchanged otherwise, and modeApiConfigs is as it was.
C11_RenameRekeysEveryDocument ==
    [][ \A oldName \in Names :
          Called("rename", oldName) =>
            \A newName \in Names, failAt \in AnyFailure :
              ( /\ RenameConfigStep(oldName, newName, failAt)
                /\ HasGlobalSettings
                /\ oldName \in DOMAIN readConfig.profiles
                /\ validateProfileName(newName, DOMAIN readConfig.profiles).isValid )
              => /\ lastOp'.res = "ok"
                 /\ oldName \notin DOMAIN readConfig'.profiles
                 /\ newName \in DOMAIN readConfig'.profiles
                 /\ readConfig'.profiles[newName] = readConfig.profiles[oldName]
                 /\ readConfig'.current =
                      IF readConfig.current = oldName
                      THEN newName ELSE readConfig.current
                 /\ readConfig'.modes = readConfig.modes
      ]_vars

C13_NotFoundWithoutWrite ==
    [][ \A name \in LookupNames :
          ( /\ \/ Called("load", name)
               \/ Called("setCurrent", name)
               \/ Called("delete", name)
               \/ Called("rename", name)
            /\ IsDocument
            /\ name \notin DOMAIN readConfig.profiles )
          => /\ lastOp'.res = "NotFound"
             /\ lastOp'.writes = 0
             /\ store' = store
             /\ readConfig' = readConfig
      ]_vars

C15_InitWritesDefaultDocument ==
    [][ ( Called("init", "") /\ store.shape = "empty" )
        => /\ lastOp'.res = "ok"
           /\ store'.shape = "current"
           /\ store'.keys = << "default" >>
           /\ Truthy(store'.profiles["default"], "id")
           /\ "apiProvider" \notin DOMAIN store'.profiles["default"]
           /\ Len(ListConfig(readConfig')) = 1
           /\ ListConfig(readConfig')[1]["name"] = "default"
      ]_vars

\* every profile of the document has an id
AllHaveIds(config) == \A n \in DOMAIN config.profiles : Truthy(config.profiles[n], "id")

\* C16: initConfig on a stored document that has globalSettings and an id
\* on every profile calls writeConfig at no point, generates no id and
\* leaves the document as it was, so a second initConfig in a row changes
\* nothing.
C16_InitIdempotentOnCurrent ==
    [][ \A failAt \in AnyFailure :
          ( /\ Called("init", "")
            /\ InitConfigStep(failAt)
            /\ store.shape = "current"
            /\ store.hasGlobal
            /\ AllHaveIds(store) )
          => /\ lastOp'.res = "ok"
             /\ lastOp'.writes = 0
             /\ InitConfigOutcome(readConfig, nextId).writes = << >>
             /\ store' = store
             /\ nextId' = nextId
      ]_vars

\* initConfig has returned from a stored document without writing
C16_Witness ==
    /\ lastOp.op = "init" /\ lastOp.res = "ok" /\ lastOp.writes = 0
    /\ store.shape = "current" /\ store.hasGlobal /\ AllHaveIds(store)
    /\ Len(store.keys) = 2

\* C17: initConfig on an old-structure document writes a document of the
\* current structure whose profiles has the keys of apiConfigs, in their
\* order, each profile with an id generated in this call and different from
\* the others' and with every profile field of the old entry as it was, and
\* whose currentApiConfigName is the old one when that names an entry.
C17_MigrationKeepsProfiles ==
    [][ \A failAt \in AnyFailure :
          ( /\ Called("init", "")
            /\ InitConfigStep(failAt)
            /\ store.shape = "legacy" )
          => /\ store'.shape = "current"
             /\ store'.hasGlobal
             /\ store'.keys = store.keys
             /\ DOMAIN store'.profiles = DOMAIN store.profiles
             /\ \A n \in DOMAIN store.profiles :
                  /\ "id" \in DOMAIN store'.profiles[n]
                  /\ store'.profiles[n]["id"]
                       \in { generateId(k) : k \in nextId..(nextId' - 1) }
                  /\ \A f \in ProfileFields \cap DOMAIN store.profiles[n] :
                       /\ f \in DOMAIN store'.profiles[n]
                       /\ store'.profiles[n][f] = store.profiles[n][f]
             /\ \A n1 \in DOMAIN store.profiles, n2 \in DOMAIN store.profiles :
                  n1 # n2 => store'.profiles[n1]["id"] # store'.profiles[n2]["id"]
             /\ store.current \in DOMAIN store.profiles
                  => store'.current = store.current
      ]_vars

\* the old-structure document with two entries, the second current, has
\* been migrated
C17_Witness ==
    /\ lastOp.op = "init" /\ lastOp.writes = 1
    /\ store.shape = "current"
    /\ store.keys = << "a", "b" >>
    /\ store.current = "b"
    /\ store.profiles["a"]["id"] # store.profiles["b"]["id"]
    /\ store.profiles["b"]["apiModelId"] = Configs["ollamaGlobals"]["apiModelId"]

\* C18: the document the migration writes binds each mode of the old
\* modeApiConfigs to the id generated for the profile that the old entry
\* named, not to the name.
C18_MigrationBindsModesToIds ==
    [][ ( Called("init", "") /\ store.shape = "legacy" )
        => /\ store'.shape = "current"
           /\ DOMAIN store'.modes = DOMAIN store.modes
           /\ \A m \in DOMAIN store.modes :
                store.modes[m] \in DOMAIN store.profiles
                => /\ store'.modes[m] = store'.profiles[store.modes[m]]["id"]
                   /\ store'.modes[m] # store.modes[m]
      ]_vars

\* C19: initConfig on an old-structure document returns normally, having
\* written the migrated document.
C19_MigrationReturnsNormally ==
    [][ ( Called("init", "") /\ store.shape = "legacy" )
        => /\ lastOp'.res = "ok"
           /\ store'.shape = "current"
      ]_vars

C21_MigratedCurrentNamesProfile ==
    [][ ( Called("init", "") /\ store.shape = "legacy" )
        => /\ store'.shape = "current"
           /\ store'.current \in DOMAIN store'.profiles
           /\ store.current \notin DOMAIN store.profiles
                => store'.current =
                     IF "default" \in DOMAIN store'.profiles
                     THEN "default" ELSE store'.keys[1]
      ]_vars

\* C22: a failing validateProfileTransition result prevents neither a save
\* onto an existing profile nor a switch: the save stores the settings, and
\* handleSelectConfig of a stored profile makes it the current one.
C22_TransitionNeverBlocks ==
    [][ \A name \in Names :
        /\ Called("save", name) =>
             \A key \in DOMAIN Configs, id \in PassedIds, failAt \in AnyFailure :
               LET settings == extractProfileSettings(WithId(Configs[key], id),
                                                      generateId(nextId))
               IN  ( /\ SaveConfigStep(name, key, id, failAt)
                     /\ IsDocument
                     /\ name \in DOMAIN readConfig.profiles
                     /\ validateProfileSettings(settings).isValid
                     /\ validateNameChars(Chars(name), FALSE).isValid
                     /\ ~ validateProfileTransition(readConfig.profiles[name],
                                                    settings).isValid )
                   => /\ lastOp'.res = "ok"
                      /\ readConfig'.profiles[name] = settings
        /\ Called("select", name) =>
             \A key \in DOMAIN Configs :
               ( /\ HandleSelectConfigStep(name, key)
                 /\ HasGlobalSettings
                 /\ name \in DOMAIN readConfig.profiles )
               => /\ lastOp'.res = "ok"
                  /\ readConfig'.current = name
      ]_vars

\* the operations that change the document
Mutating == { "save", "load", "setCurrent", "rename", "delete", "setMode" }

\* C23: when the write of a mutating operation is rejected the operation
\* throws, the stored content is as it was, and ListConfig, HasConfig and
\* GetModeConfigId return afterwards what they returned before, also while
\* nothing is stored yet.
C23_FailedWriteChangesNothing ==
    [][ ( /\ lastOp = Idle
          /\ lastOp'.op \in Mutating
          /\ lastOp'.res = "StorageFailure" )
        => /\ store' = store
           /\ ListConfig(readConfig') = ListConfig(readConfig)
           /\ \A name \in LookupNames :
                HasConfig(readConfig', name) = HasConfig(readConfig, name)
           /\ \A mode \in Modes :
                GetModeConfigId(readConfig', mode) = GetModeConfigId(readConfig, mode)
      ]_vars

\* C24: when calls interleave, the document a call writes is the one it
\* computes from the content it read, its own snapshot: the last write
\* stands, without the updates written since the snapshot was taken.
C24_LastWriterWinsFromOwnSnapshot ==
    [][ \A i \in 1..MaxPending :
          ( /\ FinishStep(i)
            /\ lastOp'.writes > 0 )
          => LET writes == OutcomeOf(pending[i], pending[i].snap, nextId).writes
             IN  /\ writes # << >>
                 /\ store' = writes[Len(writes)]
      ]_vars

\* the provider of a configuration, Undefined when it has none
ProviderOf(config) ==
    IF "apiProvider" \in DOMAIN config THEN config["apiProvider"] ELSE Undefined

\* C25: validateProfileSettings of a configuration whose provider is
\* missing or not a known one is invalid with exactly one error, the
\* invalid-provider error, whatever the other fields hold.
C25_UnknownProviderSingleError ==
    ( /\ applied.fn = "validateProfileSettings"
      /\ ProviderOf(applied.config) \notin KnownProviders )
    => /\ ~ applied.result.isValid
       /\ applied.result.errors = << "Invalid API provider" >>

\* the required fields of each known provider, as the contract lists them
RequiredList(provider) ==
    CASE provider = "anthropic" -> { "apiKey" }
      [] provider = "openai" -> { "openAiApiKey", "openAiBaseUrl" }
      [] provider = "bedrock" -> { "awsAccessKey", "awsSecretKey" }
      [] provider = "vertex" -> { "vertexProjectId", "vertexRegion" }
      [] provider = "glama" -> { "glamaApiKey" }
      [] provider = "openrouter" -> { "openRouterApiKey" }
      [] provider = "gemini" -> { "geminiApiKey" }
      [] provider = "openai-native" -> { "openAiNativeApiKey" }
      [] provider = "deepseek" -> { "deepSeekApiKey" }
      [] provider = "mistral" -> { "mistralApiKey" }
      [] provider = "vscode-lm" -> { "vsCodeLmModelSelector" }
      [] provider \in { "ollama", "lmstudio" } -> { }

\* every required field of the provider is present and non-empty
RequiredPresent(config) ==
    \A f \in RequiredList(ProviderOf(config)) :
        f \in DOMAIN config /\ config[f] # ""

\* C26: for a known provider validateProfileSettings is valid exactly when
\* every required field of the provider is present and non-empty and the
\* model id, if present, is not blank after trimming; and the error list is
\* empty exactly when the result is valid.
C26_ValidIffRequiredAndModelId ==
    ( /\ applied.fn = "validateProfileSettings"
      /\ ProviderOf(applied.config) \in KnownProviders )
    => /\ applied.result.isValid
            <=> /\ RequiredPresent(applied.config)
                /\ "apiModelId" \in DOMAIN applied.config
                      => Trim(applied.config["apiModelId"]) # ""
       /\ applied.result.isValid <=> applied.result.errors = << >>

\* the characters the contract allows in a profile name
AllowedNameChars == Letters \cup Digits \cup { " ", "_", "-" }

\* C27: validateProfileName is valid exactly when the name is non-empty and
\* not blank, at most 50 characters long, made only of letters, digits,
\* space, underscore and hyphen, and not among the existing names; otherwise
\* it is invalid with a non-empty error list.
C27_NameValidExactly ==
    applied.fn = "validateProfileName"
    => /\ applied.result.isValid
            <=> /\ Len(applied.name) > 0
                /\ \E i \in 1..Len(applied.name) : applied.name[i] \notin WhiteSpace
                /\ Len(applied.name) <= MaxNameLength
                /\ \A i \in 1..Len(applied.name) :
                      applied.name[i] \in AllowedNameChars
                /\ ~ applied.existing
       /\ ~ applied.result.isValid => applied.result.errors # << >>

\* C28: a save under a name that is already a key, with a configuration that
\* passes validateProfileSettings, succeeds and stores the profile, whether
\* or not the name passes validateProfileName.
C28_SaveOnExistingSkipsNameCheck ==
    [][ \A name \in Names :
          Called("save", name) =>
            \A key \in DOMAIN Configs, id \in PassedIds, failAt \in NoFailure :
              ( /\ SaveConfigStep(name, key, id, failAt)
                /\ IsDocument
                /\ name \in DOMAIN readConfig.profiles
                /\ validateProfileSettings(Configs[key]).isValid )
              => /\ lastOp'.res = "ok"
                 /\ \A f \in DOMAIN Configs[key] \cap ProfileFields :
                      /\ f \in DOMAIN readConfig'.profiles[name]
                      /\ readConfig'.profiles[name][f] = Configs[key][f]
      ]_vars

\* C29: a successful save under an existing name replaces the profile
\* wholesale: every profile field of the configuration is stored with the
\* configuration's value, and the stored profile has no other field than
\* these and the id.
C29_SaveReplacesWholesale ==
    [][ \A name \in Names :
          Called("save", name) =>
            \A key \in DOMAIN Configs, id \in PassedIds, failAt \in NoFailure :
              ( /\ SaveConfigStep(name, key, id, failAt)
                /\ IsDocument
                /\ name \in DOMAIN readConfig.profiles
                /\ lastOp'.res = "ok" )
              => /\ DOMAIN readConfig'.profiles[name] \ { "id" }
                      = (DOMAIN Configs[key] \cap ProfileFields) \ { "id" }
                 /\ \A f \in DOMAIN readConfig'.profiles[name] \ { "id" } :
                      readConfig'.profiles[name][f] = Configs[key][f]
      ]_vars

\* a save has succeeded under the first of two keys, which a save that adds
\* the key never yields, and the profile stored has no apiKey
C29_Witness ==
    /\ lastOp.op = "save" /\ lastOp.res = "ok"
    /\ IsDocument
    /\ Len(readConfig.keys) = 2
    /\ readConfig.keys[1] = lastOp.name
    /\ "apiKey" \notin DOMAIN readConfig.profiles[lastOp.name]
    /\ Truthy(readConfig.profiles[lastOp.name], "apiProvider")

\* C30: on a document with globalSettings SetModeConfig(mode, configId)
\* succeeds for any configId, the id of a profile or not; GetModeConfigId of
\* the mode then returns configId; GetModeConfigId of a mode that has no
\* binding returns nothing; and the call leaves the bindings of the other
\* modes, the profiles, their order and the current name as they were.
C30_BindModeThenGet ==
    [][ \A mode \in Modes :
          Called("setMode", mode) =>
            \A configId \in { UnknownId } \cup ProfileIds(readConfig) :
              ( SetModeConfigStep(mode, configId, 0) /\ HasGlobalSettings )
              => /\ lastOp'.res = "ok"
                 /\ GetModeConfigId(readConfig', mode) = configId
                 /\ \A other \in Modes \ { mode } :
                      /\ GetModeConfigId(readConfig', other)
                           = GetModeConfigId(readConfig, other)
                      /\ other \notin DOMAIN readConfig.modes
                           => GetModeConfigId(readConfig', other) = ""
                 /\ readConfig'.shape = readConfig.shape
                 /\ readConfig'.keys = readConfig.keys
                 /\ readConfig'.profiles = readConfig.profiles
                 /\ readConfig'.hasGlobal = readConfig.hasGlobal
                 /\ readConfig'.current = readConfig.current
      ]_vars

\* a mode has been bound to the id of no profile while the other mode stays
\* bound to the id of a profile
C30_Witness ==
    /\ lastOp.op = "setMode" /\ lastOp.res = "ok"
    /\ HasGlobalSettings
    /\ GetModeConfigId(readConfig, lastOp.name) = UnknownId
    /\ \E other \in Modes \ { lastOp.name } :
         GetModeConfigId(readConfig, other) \in ProfileIds(readConfig)

\* C31: initConfig on a stored document of the current structure gives an
\* id to every profile that lacks one and changes no other field and no
\* profile that has an id; when globalSettings is absent it creates it with
\* currentApiConfigName "default" if a profile has that name and the first
\* key otherwise; afterwards the stored document has an id on every profile
\* and globalSettings whose currentApiConfigName is a key of profiles.
C31_InitBackfills ==
    [][ ( Called("init", "") /\ InitConfigStep(0) /\ store.shape = "current" )
          => /\ lastOp'.res = "ok"
             /\ store'.shape = "current"
             /\ store'.keys = store.keys
             /\ DOMAIN store'.profiles = DOMAIN store.profiles
             /\ \A n \in DOMAIN store.profiles :
                  /\ Truthy(store.profiles[n], "id")
                       => store'.profiles[n] = store.profiles[n]
                  /\ \A f \in DOMAIN store.profiles[n] \ { "id" } :
                       /\ f \in DOMAIN store'.profiles[n]
                       /\ store'.profiles[n][f] = store.profiles[n][f]
                  /\ DOMAIN store'.profiles[n] = DOMAIN store.profiles[n] \cup { "id" }
             /\ ~ store.hasGlobal =>
                  store'.current = IF "default" \in DOMAIN store.profiles
                                   THEN "default" ELSE store.keys[1]
             /\ AllHaveIds(store')
             /\ store'.hasGlobal
             /\ store'.current \in DOMAIN store'.profiles
      ]_vars

\* C32: ListConfig on a document of the current structure returns one entry
\* per profile, in the order of the keys, each with the name, the id and
\* the provider of the profile, and changes neither the store nor the
\* document read.
C32_ListInKeyOrderNoWrite ==
    [][ ( Called("list", "") /\ IsDocument )
          => /\ lastOp'.res = "ok" /\ lastOp'.writes = 0
             /\ applied'.fn = "ListConfig"
             /\ Len(applied'.result) = Len(readConfig.keys)
             /\ Len(applied'.result) = Cardinality(DOMAIN readConfig.profiles)
             /\ \A i \in 1..Len(readConfig.keys) :
                  LET entry == applied'.result[i]
                      profile == readConfig.profiles[readConfig.keys[i]]
                  IN  /\ entry["name"] = readConfig.keys[i]
                      /\ DOMAIN entry \subseteq { "name", "id", "apiProvider" }
                      /\ \A f \in { "id", "apiProvider" } :
                           IF f \in DOMAIN profile
                           THEN f \in DOMAIN entry /\ entry[f] = profile[f]
                           ELSE f \notin DOMAIN entry
             /\ store' = store
             /\ readConfig' = readConfig
      ]_vars

\* a list of two profiles has been returned, in the order of the keys
C32_Witness ==
    /\ lastOp.op = "list" /\ lastOp.res = "ok"
    /\ applied.fn = "ListConfig"
    /\ Len(applied.result) = 2
    /\ applied.result[1]["name"] = readConfig.keys[1]
    /\ applied.result[2]["name"] = readConfig.keys[2]
    /\ "id" \in DOMAIN applied.result[2]

\* C33: a successful DeleteConfig(name) removes exactly the mode bindings
\* whose id is the id of the deleted profile, leaves every other binding and
\* every other profile as it was, leaves currentApiConfigName as it was
\* unless it was name, and so removes no binding whose id is carried by a
\* profile that is still in the document.
C33_DeletePrunesOnlyItsBindings ==
    [][ \A name \in Names :
          ( /\ Called("delete", name)
            /\ DeleteConfigStep(name, 0)
            /\ IsDocument
            /\ name \in DOMAIN readConfig.profiles
            /\ lastOp'.res = "ok" )
          => /\ DOMAIN readConfig'.modes
                  = { m \in DOMAIN readConfig.modes :
                        ~ ( /\ "id" \in DOMAIN readConfig.profiles[name]
                            /\ readConfig.modes[m] = readConfig.profiles[name]["id"] ) }
             /\ \A m \in DOMAIN readConfig'.modes :
                  readConfig'.modes[m] = readConfig.modes[m]
             /\ DOMAIN readConfig'.profiles = DOMAIN readConfig.profiles \ { name }
             /\ \A other \in DOMAIN readConfig'.profiles :
                  readConfig'.profiles[other] = readConfig.profiles[other]
             /\ readConfig.current # name => readConfig'.current = readConfig.current
             /\ \A m \in DOMAIN readConfig.modes :
                  readConfig.modes[m] \in ProfileIds(readConfig')
                  => m \in DOMAIN readConfig'.modes
      ]_vars

\* C34: a successful LoadConfig(name) or SetCurrentConfig(name) sets
\* currentApiConfigName to name and changes nothing else of the document:
\* the profiles, their order and the mode bindings are as they were.
C34_LoadAndSetCurrentFrame ==
    [][ \A name \in LookupNames :
          ( /\ Called("load", name) \/ Called("setCurrent", name)
            /\ LoadConfigStep(name, 0) \/ SetCurrentConfigStep(name, 0)
            /\ lastOp'.res = "ok" )
          => /\ store'.shape = "current"
             /\ readConfig'.current = name
             /\ readConfig'.keys = readConfig.keys
             /\ readConfig'.profiles = readConfig.profiles
             /\ readConfig'.modes = readConfig.modes
             /\ readConfig'.hasGlobal = readConfig.hasGlobal
      ]_vars

\* a load or a change of the current profile has moved currentApiConfigName
\* to the second of two profiles while a mode is bound
C34_Witness ==
    /\ lastOp.op \in { "load", "setCurrent" } /\ lastOp.res = "ok"
    /\ IsDocument
    /\ Len(readConfig.keys) = 2
    /\ readConfig.keys[2] = lastOp.name
    /\ readConfig.current = lastOp.name
    /\ DOMAIN readConfig.modes # {}

\* C35: RenameConfig(name, name) for an existing profile leaves the document
\* as it was: the profile is still stored under name with its id and
\* fields, and the profiles are as many as before.
C35_RenameToItselfChangesNothing ==
    [][ \A name \in Names :
          ( /\ Called("rename", name)
            /\ RenameConfigStep(name, name, 0)
            /\ IsDocument
            /\ name \in DOMAIN readConfig.profiles )
          => /\ name \in DOMAIN readConfig'.profiles
             /\ readConfig'.profiles[name] = readConfig.profiles[name]
             /\ Len(readConfig'.keys) = Len(readConfig.keys)
             /\ readConfig' = readConfig
      ]_vars

\* the stored document is of the current structure, with globalSettings and
\* an id on every profile: what initConfig leaves
Initialised(config) ==
    config.shape = "current" /\ config.hasGlobal /\ AllHaveIds(config)

\* C36: an operation called while the initConfig started by the constructor
\* is still pending works on a document of the current structure and does
\* not fail for want of profiles or globalSettings; and no operation
\* replaces the stored result of the initialisation, a document with
\* globalSettings and an id on every profile, by one without.
C36_OperationsSeeInitialisedDocument ==
    [][ \A i \in 1..MaxPending :
          ( FinishStep(i) /\ pending[i].op # "init" )
          => /\ (\E j \in 1..(i - 1) : pending[j].op = "init")
                  => /\ Held(i).shape = "current"
                     /\ lastOp'.res # "TypeError"
             /\ Initialised(store) => Initialised(store')
      ]_vars

\* C37: the provider's renameApiConfiguration handler, when its three calls
\* succeed, leaves the store as a rename would: oldName is no key, newName
\* holds the fields and the id oldName held, currentApiConfigName is
\* newName, and every mode bound to the id of the profile is still bound to
\* it.
C37_HandlerRenames ==
    [][ \A oldName \in Names : \A newName \in Names \ { oldName } :
          ( /\ Called("renameApiConfiguration", oldName)
            /\ RenameApiConfigurationStep(oldName, newName)
            /\ IsDocument
            /\ oldName \in DOMAIN readConfig.profiles
            /\ lastOp'.res = "ok" )
          => /\ oldName \notin DOMAIN readConfig'.profiles
             /\ newName \in DOMAIN readConfig'.profiles
             /\ Truthy(readConfig.profiles[oldName], "id")
                  => readConfig'.profiles[newName] = readConfig.profiles[oldName]
             /\ readConfig'.current = newName
             /\ \A m \in DOMAIN readConfig.modes :
                  ( /\ Truthy(readConfig.profiles[oldName], "id")
                    /\ readConfig.modes[m] = readConfig.profiles[oldName]["id"] )
                  => /\ m \in DOMAIN readConfig'.modes
                     /\ readConfig'.modes[m] = readConfig.modes[m]
      ]_vars

\* the id ListConfig reports for the profile name, "" when it reports none
ReportedId(config, name) ==
    IF Truthy(config.profiles[name], "id") THEN config.profiles[name]["id"] ELSE ""

\* C38: the id reported for a profile does not change once it has been
\* reported: no step, the construction of a new ConfigManager over the same
\* backing store among them, changes the id ListConfig reports for a name
\* that it reported an id for.
C38_ReportedIdNeverChanges ==
    [][ ( IsDocument /\ readConfig'.shape = "current" )
          => \A name \in DOMAIN readConfig.profiles \cap DOMAIN readConfig'.profiles :
               ReportedId(readConfig, name) # ""
               => ReportedId(readConfig', name) = ReportedId(readConfig, name)
      ]_vars

\* C39: DeleteConfig("default") never removes the profile named default,
\* whatever other profiles the document has.
C39_DefaultNeverDeleted ==
    [][ ( /\ Called("delete", "default")
          /\ DeleteConfigStep("default", 0)
          /\ IsDocument
          /\ "default" \in DOMAIN readConfig.profiles )
        => /\ readConfig'.shape = "current"
           /\ "default" \in DOMAIN readConfig'.profiles
      ]_vars

\* the providers the contract counts as the credentialed family
CredentialedFamily ==
    { "anthropic", "openai", "glama", "openrouter", "bedrock", "vertex",
      "gemini", "openai-native", "deepseek", "mistral" }

\* the new configuration holds the model id of the old one
CarriedOver(fromConfig, toConfig) ==
    /\ Truthy(fromConfig, "apiModelId")
    /\ "apiModelId" \in DOMAIN toConfig
    /\ toConfig["apiModelId"] = fromConfig["apiModelId"]

\* C40: validateProfileTransition is valid without errors when the two
\* configurations have the same provider; when the providers differ it
\* reports the re-authentication error exactly when both providers are of
\* the credentialed family, and the model error exactly when the new
\* configuration carries the model id of the old one.
C40_TransitionFlags ==
    applied.fn = "validateProfileTransition"
    => LET errors == Range(applied.result.errors)
           same == ProviderOf(applied.fromConfig) = ProviderOf(applied.toConfig)
       IN  /\ same => applied.result.isValid /\ applied.result.errors = << >>
           /\ ~ same =>
                /\ "Switching between these providers may require re-authentication"
                       \in errors
                     <=> /\ ProviderOf(applied.fromConfig) \in CredentialedFamily
                         /\ ProviderOf(applied.toConfig) \in CredentialedFamily
                /\ "Model ID may not be compatible with the new provider" \in errors
                     <=> CarriedOver(applied.fromConfig, applied.toConfig)

====
